---------------------------- MODULE Spec2Model ----------------------------
(***************************************************************************)
(* VeriCert backend: the untrusted-document intake pipeline.               *)
(*   PDFValidator (validate, securityScan, extractMetadata) and the        *)
(*   POST /api/verify handler that sequences them with the call to the     *)
(*   AcadCert authority.                                                   *)
(*                                                                         *)
(* Text is a sequence of one-character strings.  A Buffer is the record    *)
(* [bytes, pad, pdf]: the content is `bytes` followed by `pad` filler      *)
(* bytes (a run-length form, so that 50 MiB inputs have a finite           *)
(* representation); `pdf` is what the PDF parser sees in the document.     *)
(* An absent JavaScript property is an absent record field.                *)
(***************************************************************************)
EXTENDS Integers, Sequences, FiniteSets, TLC

VARIABLES pc, upload, buffer, filename, validation, securityCheck,
          metadata, verifyResponse, reply, calls

vars == <<pc, upload, buffer, filename, validation, securityCheck,
          metadata, verifyResponse, reply, calls>>

(***************************************************************************)
(* Bounds of the model                                                     *)
(***************************************************************************)
\* number of chunks that follow the head of an uploaded byte sequence
MaxChunks == 2

(***************************************************************************)
(* Characters and strings                                                  *)
(***************************************************************************)
Upper == <<"A","B","C","D","E","F","G","H","I","J","K","L","M",
           "N","O","P","Q","R","S","T","U","V","W","X","Y","Z">>
Lower == <<"a","b","c","d","e","f","g","h","i","j","k","l","m",
           "n","o","p","q","r","s","t","u","v","w","x","y","z">>

\* the byte the padding of a Buffer is made of
Filler == " "

toLowerChar(c) ==
    IF \E i \in 1..Len(Upper) : Upper[i] = c
    THEN Lower[CHOOSE i \in 1..Len(Upper) : Upper[i] = c]
    ELSE c

\* String.prototype.toLowerCase
toLowerCase(s) == [i \in 1..Len(s) |-> toLowerChar(s[i])]

\* String.prototype.endsWith
endsWith(s, suffix) ==
    /\ Len(suffix) <= Len(s)
    /\ \A i \in 1..Len(suffix) : s[Len(s) - Len(suffix) + i] = suffix[i]

Min(a, b) == IF a < b THEN a ELSE b

(***************************************************************************)
(* Buffers                                                                 *)
(***************************************************************************)
\* buffer.length
Length(buf) == Len(buf.bytes) + buf.pad

\* buf[i - 1] (this module counts positions from 1)
ByteAt(buf, i) == IF i <= Len(buf.bytes) THEN buf.bytes[i] ELSE Filler

\* buffer.subarray(0, end)
subarray(buf, end) == [i \in 1..Min(end, Length(buf)) |-> ByteAt(buf, i)]

\* buffer.toString('utf-8') followed by toLowerCase(): the text keeps the
\* run-length form of the buffer (the filler byte has no upper case)
toLowerText(buf) == [bytes |-> toLowerCase(buf.bytes), pad |-> buf.pad]

\* whether `needle` stands at position i of the text
RECURSIVE matchAt(_, _, _, _)
matchAt(text, needle, i, k) ==
    IF k > Len(needle) THEN TRUE
    ELSE IF i + k - 1 > Length(text) THEN FALSE
    ELSE IF ByteAt(text, i + k - 1) # needle[k] THEN FALSE
    ELSE matchAt(text, needle, i, k + 1)

\* String.prototype.includes: a left-to-right scan for the first match.  Every
\* position inside the padding reads the same, so one of them stands for all.
RECURSIVE indexFrom(_, _, _)
indexFrom(text, needle, i) ==
    IF i > Min(Length(text), Len(text.bytes) + 1) THEN FALSE
    ELSE IF matchAt(text, needle, i, 1) THEN TRUE
    ELSE indexFrom(text, needle, i + 1)

includes(text, needle) == indexFrom(text, needle, 1)

(***************************************************************************)
(* PDFValidator                                                            *)
(***************************************************************************)
MAX_FILE_SIZE == 50 * 1024 * 1024

PDF_MAGIC_NUMBER == <<"%","P","D","F","-">>

ErrTooLarge   == "File too large. Maximum size is 50MB"
ErrEmpty      == "File is empty"
ErrFormat     == "Invalid file format. Only PDF files are accepted."
ErrExtension  == "File must have .pdf extension"

DotPdf == <<".","p","d","f">>

\* validate with the extension checked before the magic number
validateExtensionFirst(buf, name) ==
    IF Length(buf) > MAX_FILE_SIZE
    THEN [valid |-> FALSE, error |-> ErrTooLarge]
    ELSE IF Length(buf) = 0
    THEN [valid |-> FALSE, error |-> ErrEmpty]
    ELSE IF ~endsWith(toLowerCase(name), DotPdf)
    THEN [valid |-> FALSE, error |-> ErrExtension]
    ELSE IF subarray(buf, 5) # PDF_MAGIC_NUMBER
    THEN [valid |-> FALSE, error |-> ErrFormat]
    ELSE [valid |-> TRUE]

\* validate with the size compared by >= instead of >
validateExclusiveLimit(buf, name) ==
    IF Length(buf) >= MAX_FILE_SIZE
    THEN [valid |-> FALSE, error |-> ErrTooLarge]
    ELSE IF Length(buf) = 0
    THEN [valid |-> FALSE, error |-> ErrEmpty]
    ELSE IF subarray(buf, 5) # PDF_MAGIC_NUMBER
    THEN [valid |-> FALSE, error |-> ErrFormat]
    ELSE IF ~endsWith(toLowerCase(name), DotPdf)
    THEN [valid |-> FALSE, error |-> ErrExtension]
    ELSE [valid |-> TRUE]

\* PDFValidator.validate
validate(buf, name) ==
    IF Length(buf) > MAX_FILE_SIZE
    THEN [valid |-> FALSE, error |-> ErrTooLarge]
    ELSE IF Length(buf) = 0
    THEN [valid |-> FALSE, error |-> ErrEmpty]
    ELSE IF subarray(buf, 5) # PDF_MAGIC_NUMBER
    THEN [valid |-> FALSE, error |-> ErrFormat]
    ELSE IF ~endsWith(toLowerCase(name), DotPdf)
    THEN [valid |-> FALSE, error |-> ErrExtension]
    ELSE [valid |-> TRUE]

MkJavascript == <<"/","j","a","v","a","s","c","r","i","p","t">>
MkJs         == <<"/","j","s">>
MkAa         == <<"/","a","a">>
MkOpenAction == <<"/","o","p","e","n","a","c","t","i","o","n">>
MkLaunch     == <<"/","l","a","u","n","c","h">>
MkSubmitForm == <<"/","s","u","b","m","i","t","f","o","r","m">>

ThreatJavaScript == "JavaScript detected"
ThreatAutoAction == "Auto-action detected"
ThreatLaunch     == "Launch action detected"
ThreatSubmitForm == "Form submission detected"

\* threats.push(kind) when the condition holds
push(threats, cond, kind) == IF cond THEN Append(threats, kind) ELSE threats

\* securityScan that stops at the first kind it finds
securityScanFirstMatch(buf) ==
    LET pdfText == toLowerText(buf)
    IN  IF includes(pdfText, MkJavascript) \/ includes(pdfText, MkJs)
        THEN [safe |-> FALSE, threats |-> <<ThreatJavaScript>>]
        ELSE IF includes(pdfText, MkAa) \/ includes(pdfText, MkOpenAction)
        THEN [safe |-> FALSE, threats |-> <<ThreatAutoAction>>]
        ELSE IF includes(pdfText, MkLaunch)
        THEN [safe |-> FALSE, threats |-> <<ThreatLaunch>>]
        ELSE IF includes(pdfText, MkSubmitForm)
        THEN [safe |-> FALSE, threats |-> <<ThreatSubmitForm>>]
        ELSE [safe |-> TRUE]

\* PDFValidator.securityScan
securityScan(buf) ==
    LET pdfText == toLowerText(buf)
        t1 == push(<<>>, includes(pdfText, MkJavascript) \/ includes(pdfText, MkJs),
                   ThreatJavaScript)
        t2 == push(t1, includes(pdfText, MkAa) \/ includes(pdfText, MkOpenAction),
                   ThreatAutoAction)
        t3 == push(t2, includes(pdfText, MkLaunch), ThreatLaunch)
        threats == push(t3, includes(pdfText, MkSubmitForm), ThreatSubmitForm)
    IN  IF Len(threats) = 0
        THEN [safe |-> TRUE]
        ELSE [safe |-> FALSE, threats |-> threats]


\* `value || undefined` for a property of the info dictionary: the field of
\* the result is present iff the property is present and not the empty string
orUndefined(name, obj, prop) ==
    IF prop \in DOMAIN obj /\ obj[prop] # "" THEN name :> obj[prop] ELSE <<>>

\* the try block of PDFValidator.extractMetadata: pdfjs rejects the document,
\* or metadata.info is undefined and reading info.Subject throws, or the four
\* properties are read
extractMetadataTry(buf) ==
    IF buf.pdf.load # "ok" THEN [raised |-> TRUE]
    ELSE IF "info" \notin DOMAIN buf.pdf THEN [raised |-> TRUE]
    ELSE LET info == buf.pdf.info
         IN  [raised |-> FALSE,
              value  |-> orUndefined("documentId", info, "Subject")
                         @@ orUndefined("institutionId", info, "Creator")
                         @@ orUndefined("documentHash", info, "Keywords")
                         @@ orUndefined("signature", info, "Producer")]

\* extractMetadata without its catch block
extractMetadataNoCatch(buf) == extractMetadataTry(buf)

\* PDFValidator.extractMetadata: the catch block returns {}
extractMetadata(buf) ==
    LET r == extractMetadataTry(buf)
    IN  IF r.raised THEN [raised |-> FALSE, value |-> <<>>] ELSE r

(***************************************************************************)
(* Inputs: uploaded documents, file names, answers of the authority        *)
(***************************************************************************)
Heads == { <<>>,
           PDF_MAGIC_NUMBER,
           <<"%","p","d","f","-">>,
           <<"%","P","D","F">> }

Chunks == { <<"/","J","a","v","a","S","c","r","i","p","t">>,
            <<"/","J","S">>,
            <<"/","A","A">>,
            <<"/","O","p","e","n","A","c","t","i","o","n">>,
            <<"/","L","a","u","n","c","h">>,
            <<"/","S","u","b","m","i","t","F","o","r","m">>,
            <<"/","J","a","v","a">>,
            <<"S","c","r","i","p","t">>,
            <<"/","T","y","p","e">> }

\* the concatenations of at most n chunks
RECURSIVE Bodies(_)
Bodies(n) ==
    IF n = 0 THEN { <<>> }
    ELSE LET shorter == Bodies(n - 1)
         IN  shorter \cup { b \o c : b \in shorter, c \in Chunks }

ByteStrings == { h \o b : h \in Heads, b \in Bodies(MaxChunks) }

\* lengths: the bytes alone, exactly the maximum, one byte over the maximum
Pads(bytes) == { 0, MAX_FILE_SIZE - Len(bytes), MAX_FILE_SIZE - Len(bytes) + 1 }

\* what the PDF parser finds in a document
PdfStructures ==
    { [load |-> "reject"],
      [load |-> "ok"],
      [load |-> "ok", info |-> <<>>],
      [load |-> "ok", info |-> [Subject |-> ""]],
      [load |-> "ok", info |-> [Creator |-> "inst-1"]],
      [load |-> "ok", info |-> [Subject |-> "doc-1"]],
      [load |-> "ok", info |-> [Subject |-> "doc-1", Creator |-> "inst-1",
                                Keywords |-> "hash-1", Producer |-> "sig-1"]] }

\* only a byte sequence with the PDF header has a structure to parse
StructuresOf(bytes) ==
    IF Len(bytes) >= 5 /\ SubSeq(bytes, 1, 5) = PDF_MAGIC_NUMBER
    THEN PdfStructures
    ELSE { [load |-> "reject"] }

Documents ==
    UNION { { [bytes |-> b, pad |-> p, pdf |-> s] :
                p \in Pads(b), s \in StructuresOf(b) } : b \in ByteStrings }

Filenames == { <<"a",".","p","d","f">>,
               <<"A",".","P","d","F">>,
               <<"a",".","t","x","t">>,
               <<"p","d","f">>,
               <<".","p","d","f",".","x">> }


\* what arrives with the request: a file part (document and file name)
Uploads == { [doc |-> d, filename |-> f] : d \in Documents, f \in Filenames }

\* the JSON objects the authority may answer with; a property it leaves out
\* is an absent field
StatusFields == { <<>>, [status |-> "ACTIVE"], [status |-> "REVOKED"],
                  [status |-> "SUPERSEDED"], [status |-> "EXPIRED"] }

ValidFields == { <<>>, [valid |-> TRUE], [valid |-> FALSE] }

ErrorsFields == { <<>>, [errors |-> <<>>],
                  [errors |-> <<"Signature mismatch", "Hash mismatch">>] }

OtherFields ==
    { <<>>,
      [checks |-> [signatureValid |-> TRUE, authorityValid |-> TRUE,
                   notRevoked |-> TRUE],
       institution |-> [name |-> "Example University"],
       document |-> [type |-> "Degree"]],
      [checks |-> [signatureValid |-> TRUE, notRevoked |-> FALSE],
       institution |-> <<>>,
       document |-> <<>>,
       revokedAt |-> "2026-01-01", revokedBy |-> "registrar",
       reason |-> "issued in error"] }

AuthorityResults ==
    { s @@ v @@ e @@ o : s \in StatusFields, v \in ValidFields,
                         e \in ErrorsFields, o \in OtherFields }

\* the body of a success response as Response.json() finds it
Bodies200 == { [json |-> "invalid"], [json |-> "null"] }
             \cup { [json |-> "object", value |-> v] : v \in AuthorityResults }

\* the outcome of fetch(): the promise rejects (no connection, DNS failure,
\* reset), resolves with an HTTP response, or stays pending because the
\* authority sends nothing. The call is made without a signal or a timer, so
\* a pending call ends only if the transport underneath gives up by itself
\* (expires) and rejects; whether it does is not decided by this code
AuthorityAnswers ==
    { [kind |-> "error"] }
    \cup { [kind |-> "silent", expires |-> e] : e \in BOOLEAN }
    \cup { [kind |-> "http", status |-> st] : st \in {403, 404, 500, 503} }
    \cup { [kind |-> "http", status |-> 200, body |-> b] : b \in Bodies200 }
    \cup { [kind |-> "http", status |-> 204, body |-> [json |-> "invalid"]] }

\* Response.ok
ok(response) == response.status >= 200 /\ response.status <= 299

\* new Date().toISOString(): sample instants, in order
Instants == << "2026-01-30T10:00:00.000Z", "2026-01-30T10:00:00.001Z" >>

\* rcpt_ followed by the hex form of crypto.randomBytes(12): sample values
ReceiptIds == { "rcpt_000000000000000000000000", "rcpt_ffffffffffffffffffffffff" }


(***************************************************************************)
(* Response synthesis (routes/verify.ts)                                   *)
(***************************************************************************)
Has(obj, prop) == prop \in DOMAIN obj

\* obj.prop as a field of a response body: left out when undefined
copy(name, obj, prop) == IF Has(obj, prop) THEN name :> obj[prop] ELSE <<>>

\* result.valid in a boolean context
validTruthy(result) == Has(result, "valid") /\ result.valid

statusIs(result, s) == Has(result, "status") /\ result.status = s

MsgValid      == "Valid Document - Issued by institution and currently active"
MsgRevoked    == "Document Revoked - Issuing institution has invalidated this document"
MsgSuperseded == "Document Superseded - This document has been replaced by a newer version"
MsgInvalid    == "Invalid Document - "
MsgTampered   == "Invalid Document - Document has been tampered with or is not authentic"
MsgUnknown    == "Document status could not be determined"

\* getStatusMessage with the not-valid branch tested before the statuses
\* REVOKED and SUPERSEDED
getStatusMessageInvalidFirst(result) ==
    IF statusIs(result, "ACTIVE") /\ validTruthy(result) THEN MsgValid
    ELSE IF ~validTruthy(result)
    THEN IF Has(result, "errors") /\ Len(result.errors) > 0
         THEN MsgInvalid \o result.errors[1]
         ELSE MsgTampered
    ELSE IF statusIs(result, "REVOKED") THEN MsgRevoked
    ELSE IF statusIs(result, "SUPERSEDED") THEN MsgSuperseded
    ELSE MsgUnknown

\* getStatusMessage
getStatusMessage(result) ==
    IF statusIs(result, "ACTIVE") /\ validTruthy(result) THEN MsgValid
    ELSE IF statusIs(result, "REVOKED") THEN MsgRevoked
    ELSE IF statusIs(result, "SUPERSEDED") THEN MsgSuperseded
    ELSE IF ~validTruthy(result)
    THEN IF Has(result, "errors") /\ Len(result.errors) > 0
         THEN MsgInvalid \o result.errors[1]
         ELSE MsgTampered
    ELSE MsgUnknown

\* mapVerificationDetails
mapVerificationDetails(result) ==
    [isValid |-> validTruthy(result)]
    @@ (IF statusIs(result, "REVOKED") /\ Has(result, "revokedAt")
        THEN "revocation" :> (copy("revokedAt", result, "revokedAt")
                              @@ copy("revokedBy", result, "revokedBy")
                              @@ copy("reason", result, "reason"))
        ELSE <<>>)
    @@ copy("checks", result, "checks")
    @@ (IF Has(result, "errors") /\ Len(result.errors) > 0
        THEN "errors" :> result.errors
        ELSE <<>>)

\* result.checks?.name with true as the value of a check that is left out
checkOrTrue(result, name) ==
    IF Has(result, "checks") /\ Has(result.checks, name)
    THEN result.checks[name]
    ELSE TRUE

\* result.checks?.name || false
checkOrFalse(result, name) ==
    Has(result, "checks") /\ Has(result.checks, name) /\ result.checks[name]

\* result.prop || {}
objectOrEmpty(result, prop) == IF Has(result, prop) THEN result[prop] ELSE <<>>

\* result.prop?.name || 'Unknown'
nameOrUnknown(result, prop, name) ==
    IF Has(result, prop) /\ Has(result[prop], name) /\ result[prop][name] # ""
    THEN result[prop][name]
    ELSE "Unknown"

\* the success response with the receipt id repeated in the message
successBodyMessageWithId(result, meta, now1, now2, receiptId) ==
    copy("status", result, "status")
    @@ copy("valid", result, "valid")
    @@ [message |-> getStatusMessage(result) \o " (" \o receiptId \o ")",
        documentId |-> meta.documentId]
    @@ copy("institutionId", meta, "institutionId")
    @@ [institution |-> objectOrEmpty(result, "institution"),
        document |-> objectOrEmpty(result, "document"),
        verification |->
            [cryptographicIntegrity |-> checkOrFalse(result, "signatureValid"),
             issuingAuthority |-> checkOrFalse(result, "authorityValid"),
             revocationStatus |-> checkOrFalse(result, "notRevoked")],
        details |-> mapVerificationDetails(result),
        verifiedAt |-> now1,
        receipt |->
            [id |-> receiptId,
             documentId |-> meta.documentId,
             verifiedAt |-> now2,
             result |-> IF validTruthy(result) THEN "VALID" ELSE "INVALID",
             checks |-> [signature |-> checkOrFalse(result, "signatureValid"),
                         authority |-> checkOrFalse(result, "authorityValid"),
                         revocation |-> checkOrFalse(result, "notRevoked")],
             institution |-> nameOrUnknown(result, "institution", "name"),
             documentType |-> nameOrUnknown(result, "document", "type")]]

\* the success response with valid taken from the status instead of the
\* authority's valid field
successBodyValidFromStatus(result, meta, now1, now2, receiptId) ==
    [valid |-> statusIs(result, "ACTIVE")]
    @@ copy("status", result, "status")
    @@ [message |-> getStatusMessage(result),
        documentId |-> meta.documentId]
    @@ copy("institutionId", meta, "institutionId")
    @@ [institution |-> objectOrEmpty(result, "institution"),
        document |-> objectOrEmpty(result, "document"),
        verification |->
            [cryptographicIntegrity |-> checkOrFalse(result, "signatureValid"),
             issuingAuthority |-> checkOrFalse(result, "authorityValid"),
             revocationStatus |-> checkOrFalse(result, "notRevoked")],
        details |-> mapVerificationDetails(result),
        verifiedAt |-> now1,
        receipt |->
            [id |-> receiptId,
             documentId |-> meta.documentId,
             verifiedAt |-> now2,
             result |-> IF validTruthy(result) THEN "VALID" ELSE "INVALID",
             checks |-> [signature |-> checkOrFalse(result, "signatureValid"),
                         authority |-> checkOrFalse(result, "authorityValid"),
                         revocation |-> checkOrFalse(result, "notRevoked")],
             institution |-> nameOrUnknown(result, "institution", "name"),
             documentType |-> nameOrUnknown(result, "document", "type")]]

\* the object sent on the success path (Step 5)
successBody(result, meta, now1, now2, receiptId) ==
    copy("status", result, "status")
    @@ copy("valid", result, "valid")
    @@ [message |-> getStatusMessage(result),
        documentId |-> meta.documentId]
    @@ copy("institutionId", meta, "institutionId")
    @@ [institution |-> objectOrEmpty(result, "institution"),
        document |-> objectOrEmpty(result, "document"),
        verification |->
            [cryptographicIntegrity |-> checkOrFalse(result, "signatureValid"),
             issuingAuthority |-> checkOrFalse(result, "authorityValid"),
             revocationStatus |-> checkOrFalse(result, "notRevoked")],
        details |-> mapVerificationDetails(result),
        verifiedAt |-> now1,
        receipt |->
            [id |-> receiptId,
             documentId |-> meta.documentId,
             verifiedAt |-> now2,
             result |-> IF validTruthy(result) THEN "VALID" ELSE "INVALID",
             checks |-> [signature |-> checkOrFalse(result, "signatureValid"),
                         authority |-> checkOrFalse(result, "authorityValid"),
                         revocation |-> checkOrFalse(result, "notRevoked")],
             institution |-> nameOrUnknown(result, "institution", "name"),
             documentType |-> nameOrUnknown(result, "document", "type")]]

\* reply.code(c).send(body)
send(c, body) == [code |-> c, body |-> body]

noFileReply ==
    send(400, [status |-> "ERROR",
               message |-> "No file uploaded. Please upload a PDF document."])

validationFailedReply(v) ==
    send(400, [status |-> "INVALID", message |-> v.error,
               reason |-> "File validation failed"])

securityFailedReply(check) ==
    send(400, [status |-> "INVALID",
               message |-> "Document contains potentially malicious content",
               reason |-> "Security check failed"]
              @@ copy("threats", check, "threats"))

\* the no-documentId answer with a receipt attached
notACredentialReplyWithReceipt ==
    send(200, [status |-> "UNKNOWN", valid |-> FALSE,
               message |-> "This document does not appear to be an AcadCert credential",
               reason |-> "No document ID found in metadata",
               details |-> [isAcadCertDocument |-> FALSE],
               receipt |-> [id |-> "rcpt_000000000000000000000000",
                            result |-> "INVALID"]])

notACredentialReply ==
    send(200, [status |-> "UNKNOWN", valid |-> FALSE,
               message |-> "This document does not appear to be an AcadCert credential",
               reason |-> "No document ID found in metadata",
               details |-> [isAcadCertDocument |-> FALSE]])

\* the not-found answer of the authority passed on as HTTP 404
notFoundReplyAs404(meta) ==
    send(404, [status |-> "UNKNOWN", valid |-> FALSE,
               message |-> "Document not found in AcadCert system",
               reason |-> "Document ID not recognized",
               details |-> [documentId |-> meta.documentId]])

notFoundReply(meta) ==
    send(200, [status |-> "UNKNOWN", valid |-> FALSE,
               message |-> "Document not found in AcadCert system",
               reason |-> "Document ID not recognized",
               details |-> [documentId |-> meta.documentId]])

unavailableReply(meta, response) ==
    send(200, [status |-> "UNKNOWN", valid |-> FALSE,
               message |-> "Unable to verify document with issuing institution",
               reason |-> "Verification service unavailable",
               details |-> [documentId |-> meta.documentId,
                            httpStatus |-> response.status]])

\* the catch block of the handler
internalErrorReply ==
    send(500, [status |-> "ERROR", valid |-> FALSE,
               message |-> "An error occurred during verification. Please try again.",
               reason |-> "Internal processing error"])


(***************************************************************************)
(* The POST /verify handler, one action per stage                          *)
(***************************************************************************)
\* limits.fileSize of the multipart registration
FILE_SIZE_LIMIT == 52428800

Reqs == DOMAIN pc

Init ==
    /\ pc = [r \in {1} |-> "start"]
    /\ upload = [r \in {1} |-> <<>>]
    /\ buffer = [r \in {1} |-> <<>>]
    /\ filename = [r \in {1} |-> <<>>]
    /\ validation = [r \in {1} |-> <<>>]
    /\ securityCheck = [r \in {1} |-> <<>>]
    /\ metadata = [r \in {1} |-> <<>>]
    /\ verifyResponse = [r \in {1} |-> <<>>]
    /\ reply = [r \in {1} |-> <<>>]
    /\ calls = [r \in {1} |-> <<>>]

\* the handler returns reply.code(c).send(body)
Return(r, response) ==
    /\ reply' = [reply EXCEPT ![r] = response]
    /\ pc' = [pc EXCEPT ![r] = "done"]

Goto(r, label) ==
    /\ pc' = [pc EXCEPT ![r] = label]
    /\ UNCHANGED reply

\* a catch block that reports the stage the exception came from
CatchNamingStage(r) ==
    Return(r, send(500, [status |-> "ERROR", valid |-> FALSE,
                         message |-> "An error occurred during verification. Please try again.",
                         reason |-> "Internal processing error in " \o pc[r]]))

\* an exception reaches the catch block of the handler
Catch(r) == Return(r, internalErrorReply)

Invoke(r, stage) == calls' = [calls EXCEPT ![r] = Append(@, stage)]

\* const data = await request.file()
RequestFileFrom(r, parts) ==
    /\ pc[r] = "start"
    /\ \E u \in parts :
          /\ upload' = [upload EXCEPT ![r] = u]
          /\ IF u = <<>> THEN Return(r, noFileReply) ELSE Goto(r, "toBuffer")
    /\ UNCHANGED <<buffer, filename, validation, securityCheck, metadata,
                   verifyResponse, calls>>

\* the request carries any of the modelled uploads, or no file part
RequestFile(r) == RequestFileFrom(r, Uploads \cup { <<>> })

\* const buffer = await data.toBuffer(): the multipart layer throws when the
\* file part is longer than limits.fileSize
ToBuffer(r) ==
    /\ pc[r] = "toBuffer"
    /\ IF Length(upload[r].doc) > FILE_SIZE_LIMIT
       THEN /\ Catch(r)
            /\ UNCHANGED <<buffer, filename>>
       ELSE /\ buffer' = [buffer EXCEPT ![r] = upload[r].doc]
            /\ filename' = [filename EXCEPT ![r] = upload[r].filename]
            /\ Goto(r, "validate")
    /\ UNCHANGED <<upload, validation, securityCheck, metadata,
                   verifyResponse, calls>>

\* Step 1 without the return after the 400 response
ValidateNoReturn(r) ==
    /\ pc[r] = "validate"
    /\ Invoke(r, "validate")
    /\ LET v == validate(buffer[r], filename[r])
       IN  /\ validation' = [validation EXCEPT ![r] = v]
           /\ reply' = [reply EXCEPT
                          ![r] = IF ~v.valid THEN validationFailedReply(v) ELSE @]
           /\ pc' = [pc EXCEPT ![r] = "securityScan"]
    /\ UNCHANGED <<upload, buffer, filename, securityCheck, metadata,
                   verifyResponse>>

\* Step 1: Basic PDF validation
Validate(r) ==
    /\ pc[r] = "validate"
    /\ Invoke(r, "validate")
    /\ LET v == validate(buffer[r], filename[r])
       IN  /\ validation' = [validation EXCEPT ![r] = v]
           /\ IF ~v.valid
              THEN Return(r, validationFailedReply(v))
              ELSE Goto(r, "securityScan")
    /\ UNCHANGED <<upload, buffer, filename, securityCheck, metadata,
                   verifyResponse>>

\* Step 2: Security scan
SecurityScan(r) ==
    /\ pc[r] = "securityScan"
    /\ Invoke(r, "securityScan")
    /\ LET check == securityScan(buffer[r])
       IN  /\ securityCheck' = [securityCheck EXCEPT ![r] = check]
           /\ IF ~check.safe
              THEN Return(r, securityFailedReply(check))
              ELSE Goto(r, "extractMetadata")
    /\ UNCHANGED <<upload, buffer, filename, validation, metadata,
                   verifyResponse>>

\* Step 3 reading the buffer from a variable that the handlers of all
\* requests share: it holds the bytes of whichever request wrote last
ExtractMetadataSharedBuffer(r) ==
    /\ pc[r] = "extractMetadata"
    /\ Invoke(r, "extractMetadata")
    /\ \E q \in Reqs :
          /\ buffer[q] # <<>>
          /\ LET m == extractMetadata(buffer[q])
             IN  IF m.raised
                 THEN /\ Catch(r)
                      /\ UNCHANGED metadata
                 ELSE /\ metadata' = [metadata EXCEPT ![r] = m.value]
                      /\ IF ~Has(m.value, "documentId")
                         THEN Return(r, notACredentialReply)
                         ELSE Goto(r, "fetch")
    /\ UNCHANGED <<upload, buffer, filename, validation, securityCheck,
                   verifyResponse>>

\* Step 3: Extract metadata
ExtractMetadata(r) ==
    /\ pc[r] = "extractMetadata"
    /\ Invoke(r, "extractMetadata")
    /\ LET m == extractMetadata(buffer[r])
       IN  IF m.raised
           THEN /\ Catch(r)
                /\ UNCHANGED metadata
           ELSE /\ metadata' = [metadata EXCEPT ![r] = m.value]
                /\ IF ~Has(m.value, "documentId")
                   THEN Return(r, notACredentialReply)
                   ELSE Goto(r, "fetch")
    /\ UNCHANGED <<upload, buffer, filename, validation, securityCheck,
                   verifyResponse>>

\* Step 4 with the call repeated when it fails or is answered with a status
\* that is not ok
FetchWithRetry(r) ==
    /\ pc[r] = "fetch"
    /\ Invoke(r, "fetch")
    /\ \E answer \in AuthorityAnswers :
          /\ verifyResponse' =
                [verifyResponse EXCEPT
                   ![r] = answer @@ [documentId |-> metadata[r].documentId]]
          /\ IF answer.kind = "silent" THEN Goto(r, "awaitFetch")
             ELSE IF answer.kind = "error" THEN Goto(r, "fetch")
             ELSE IF ~ok(answer)
             THEN IF answer.status = 404
                  THEN Return(r, notFoundReply(metadata[r]))
                  ELSE Goto(r, "fetch")
             ELSE Goto(r, "json")
    /\ UNCHANGED <<upload, buffer, filename, validation, securityCheck,
                   metadata>>

\* Step 4: the GET to {authority}/api/documents/{documentId}/verify-public
\* and the classification of a response that is not ok
FetchFrom(r, answers) ==
    /\ pc[r] = "fetch"
    /\ Invoke(r, "fetch")
    /\ \E answer \in answers :
          /\ verifyResponse' =
                [verifyResponse EXCEPT
                   ![r] = answer @@ [documentId |-> metadata[r].documentId]]
          /\ IF answer.kind = "silent" THEN Goto(r, "awaitFetch")
             ELSE IF answer.kind = "error" THEN Catch(r)
             ELSE IF ~ok(answer)
             THEN IF answer.status = 404
                  THEN Return(r, notFoundReply(metadata[r]))
                  ELSE Return(r, unavailableReply(metadata[r], answer))
             ELSE Goto(r, "json")
    /\ UNCHANGED <<upload, buffer, filename, validation, securityCheck,
                   metadata>>

\* the authority behaves in any of the modelled ways
Fetch(r) == FetchFrom(r, AuthorityAnswers)

\* the handler is suspended in await fetch(...) on an authority that sends
\* nothing; the only continuation is the rejection of the promise by the
\* transport, which the catch block receives
FetchExpires(r) ==
    /\ pc[r] = "awaitFetch"
    /\ verifyResponse[r].expires
    /\ Catch(r)
    /\ UNCHANGED <<upload, buffer, filename, validation, securityCheck,
                   metadata, verifyResponse, calls>>

\* const verificationResult = await verifyResponse.json(), then Step 5.
\* json() rejects on a body that is not JSON; reading a property of null
\* throws; both reach the catch block
Json(r) ==
    /\ pc[r] = "json"
    /\ LET body == verifyResponse[r].body
       IN  IF body.json # "object"
           THEN Catch(r)
           ELSE \E i \in 1..Len(Instants), j \in 1..Len(Instants),
                   id \in ReceiptIds :
                   /\ i <= j
                   /\ Return(r, send(200, successBody(body.value, metadata[r],
                                                      Instants[i], Instants[j], id)))
    /\ UNCHANGED <<upload, buffer, filename, validation, securityCheck,
                   metadata, verifyResponse, calls>>

Next ==
    \/ \E r \in Reqs : RequestFile(r)
    \/ \E r \in Reqs : ToBuffer(r)
    \/ \E r \in Reqs : Validate(r)
    \/ \E r \in Reqs : SecurityScan(r)
    \/ \E r \in Reqs : ExtractMetadata(r)
    \/ \E r \in Reqs : Fetch(r)
    \/ \E r \in Reqs : FetchExpires(r)
    \/ \E r \in Reqs : Json(r)

Spec == Init /\ [][Next]_vars


(***************************************************************************)
(* PDFValidator called on its own: each static method applied to inputs    *)
(* that do not pass through the upload layer or the stages before it; one  *)
(* call per behaviour                                                      *)
(***************************************************************************)
UnitInit ==
    /\ pc = [r \in {1} |-> "unit"]
    /\ upload = [r \in {1} |-> <<>>]
    /\ buffer = [r \in {1} |-> <<>>]
    /\ filename = [r \in {1} |-> <<>>]
    /\ validation = [r \in {1} |-> <<>>]
    /\ securityCheck = [r \in {1} |-> <<>>]
    /\ metadata = [r \in {1} |-> <<>>]
    /\ verifyResponse = [r \in {1} |-> <<>>]
    /\ reply = [r \in {1} |-> <<>>]
    /\ calls = [r \in {1} |-> <<>>]

\* PDFValidator.validate(buffer, filename)
UnitValidate(r) ==
    /\ pc[r] = "unit"
    /\ \E d \in Documents, f \in Filenames :
          /\ buffer' = [buffer EXCEPT ![r] = d]
          /\ filename' = [filename EXCEPT ![r] = f]
          /\ validation' = [validation EXCEPT ![r] = validate(d, f)]
    /\ securityCheck' = [securityCheck EXCEPT ![r] = <<>>]
    /\ metadata' = [metadata EXCEPT ![r] = <<>>]
    /\ calls' = [calls EXCEPT ![r] = <<"validate">>]
    /\ pc' = [pc EXCEPT ![r] = "returned"]
    /\ UNCHANGED <<upload, verifyResponse, reply>>

\* PDFValidator.securityScan(buffer)
UnitSecurityScan(r) ==
    /\ pc[r] = "unit"
    /\ \E d \in Documents :
          /\ buffer' = [buffer EXCEPT ![r] = d]
          /\ securityCheck' = [securityCheck EXCEPT ![r] = securityScan(d)]
    /\ filename' = [filename EXCEPT ![r] = <<>>]
    /\ validation' = [validation EXCEPT ![r] = <<>>]
    /\ metadata' = [metadata EXCEPT ![r] = <<>>]
    /\ calls' = [calls EXCEPT ![r] = <<"securityScan">>]
    /\ pc' = [pc EXCEPT ![r] = "returned"]
    /\ UNCHANGED <<upload, verifyResponse, reply>>

\* PDFValidator.extractMetadata(buffer)
UnitExtractMetadata(r) ==
    /\ pc[r] = "unit"
    /\ \E d \in Documents :
          /\ buffer' = [buffer EXCEPT ![r] = d]
          /\ metadata' = [metadata EXCEPT ![r] = extractMetadata(d)]
    /\ filename' = [filename EXCEPT ![r] = <<>>]
    /\ validation' = [validation EXCEPT ![r] = <<>>]
    /\ securityCheck' = [securityCheck EXCEPT ![r] = <<>>]
    /\ calls' = [calls EXCEPT ![r] = <<"extractMetadata">>]
    /\ pc' = [pc EXCEPT ![r] = "returned"]
    /\ UNCHANGED <<upload, verifyResponse, reply>>

UnitNext ==
    \/ \E r \in Reqs : UnitValidate(r)
    \/ \E r \in Reqs : UnitSecurityScan(r)
    \/ \E r \in Reqs : UnitExtractMetadata(r)

UnitSpec == UnitInit /\ [][UnitNext]_vars


(***************************************************************************)
(* Two requests handled at once. Node runs the handlers on one thread and  *)
(* switches between them at the awaits; the model switches between any two *)
(* steps. The uploads and the answers of the authority are a choice that   *)
(* reaches every branch of the handler.                                    *)
(***************************************************************************)
ConcPdf(info) == [bytes |-> PDF_MAGIC_NUMBER \o <<"/","T","y","p","e">>,
                  pad |-> 0,
                  pdf |-> [load |-> "ok", info |-> info]]

ConcUploads ==
    { <<>>,
      [doc |-> ConcPdf([Subject |-> "doc-1"]), filename |-> <<"a",".","p","d","f">>],
      [doc |-> ConcPdf([Subject |-> "doc-2", Creator |-> "inst-2"]),
       filename |-> <<"A",".","P","d","F">>],
      [doc |-> ConcPdf([Creator |-> "inst-1"]), filename |-> <<"a",".","p","d","f">>],
      [doc |-> ConcPdf([Subject |-> "doc-1"]), filename |-> <<"a",".","t","x","t">>],
      [doc |-> [bytes |-> PDF_MAGIC_NUMBER \o <<"/","J","S">>, pad |-> 0,
                pdf |-> [load |-> "ok", info |-> [Subject |-> "doc-1"]]],
       filename |-> <<"a",".","p","d","f">>],
      [doc |-> [bytes |-> PDF_MAGIC_NUMBER,
                pad |-> FILE_SIZE_LIMIT - Len(PDF_MAGIC_NUMBER) + 1,
                pdf |-> [load |-> "ok", info |-> [Subject |-> "doc-1"]]],
       filename |-> <<"a",".","p","d","f">>] }

ConcAnswers ==
    { [kind |-> "error"],
      [kind |-> "silent", expires |-> TRUE],
      [kind |-> "silent", expires |-> FALSE],
      [kind |-> "http", status |-> 404],
      [kind |-> "http", status |-> 503],
      [kind |-> "http", status |-> 200, body |-> [json |-> "invalid"]],
      [kind |-> "http", status |-> 200,
       body |-> [json |-> "object",
                 value |-> [status |-> "ACTIVE", valid |-> TRUE,
                            checks |-> [signatureValid |-> TRUE,
                                        authorityValid |-> TRUE,
                                        notRevoked |-> TRUE],
                            institution |-> [name |-> "Example University"],
                            document |-> [type |-> "Degree"]]]],
      [kind |-> "http", status |-> 200,
       body |-> [json |-> "object",
                 value |-> [status |-> "REVOKED", valid |-> FALSE,
                            revokedAt |-> "2026-01-01"]]] }

ConcInit ==
    /\ pc = [r \in {1, 2} |-> "start"]
    /\ upload = [r \in {1, 2} |-> <<>>]
    /\ buffer = [r \in {1, 2} |-> <<>>]
    /\ filename = [r \in {1, 2} |-> <<>>]
    /\ validation = [r \in {1, 2} |-> <<>>]
    /\ securityCheck = [r \in {1, 2} |-> <<>>]
    /\ metadata = [r \in {1, 2} |-> <<>>]
    /\ verifyResponse = [r \in {1, 2} |-> <<>>]
    /\ reply = [r \in {1, 2} |-> <<>>]
    /\ calls = [r \in {1, 2} |-> <<>>]

ConcNext ==
    \/ \E r \in Reqs : RequestFileFrom(r, ConcUploads)
    \/ \E r \in Reqs : ToBuffer(r)
    \/ \E r \in Reqs : Validate(r)
    \/ \E r \in Reqs : SecurityScan(r)
    \/ \E r \in Reqs : ExtractMetadata(r)
    \/ \E r \in Reqs : FetchFrom(r, ConcAnswers)
    \/ \E r \in Reqs : FetchExpires(r)
    \/ \E r \in Reqs : Json(r)

ConcSpec == ConcInit /\ [][ConcNext]_vars


(***************************************************************************)
(* Properties of PDFValidator                                              *)
(***************************************************************************)
FiftyMiB == 50 * 1024 * 1024

\* the four checks of the structural validator, each on its own
TooLarge(buf) == Length(buf) > FiftyMiB
IsEmpty(buf) == Length(buf) = 0
BadMagic(buf) ==
    \E i \in 1..5 : i > Length(buf) \/ ByteAt(buf, i) # PDF_MAGIC_NUMBER[i]
BadExtension(name) ==
    \/ Len(name) < 4
    \/ toLowerCase(SubSeq(name, Len(name) - 3, Len(name))) # <<".","p","d","f">>

\* the error of the earliest failing check in the order
\* size, emptiness, magic number, extension
FirstFailure(buf, name) ==
    CASE TooLarge(buf) -> ErrTooLarge
      [] ~TooLarge(buf) /\ IsEmpty(buf) -> ErrEmpty
      [] ~TooLarge(buf) /\ ~IsEmpty(buf) /\ BadMagic(buf) -> ErrFormat
      [] OTHER -> ErrExtension

ValidateReturned(r) == "validate" \in { calls[r][i] : i \in 1..Len(calls[r]) }

\* C7: validate reports the error of the earliest failing check in the order
\* size, emptiness, magic number, extension, and nothing else; it answers
\* valid exactly when none of the four checks fails.
C7_FirstFailureReported ==
    \A r \in Reqs :
        ValidateReturned(r) =>
            LET buf == buffer[r]
                name == filename[r]
                anyFails == TooLarge(buf) \/ IsEmpty(buf) \/ BadMagic(buf)
                            \/ BadExtension(name)
            IN  /\ validation[r].valid = ~anyFails
                /\ anyFails => /\ Has(validation[r], "error")
                               /\ validation[r].error = FirstFailure(buf, name)
                /\ ~anyFails => ~Has(validation[r], "error")

\* a call where the magic number and the extension both fail and the magic
\* number's error is the one reported
C7_Witness ==
    \E r \in Reqs :
        /\ ValidateReturned(r)
        /\ ~TooLarge(buffer[r]) /\ ~IsEmpty(buffer[r])
        /\ BadMagic(buffer[r]) /\ BadExtension(filename[r])
        /\ validation[r] = [valid |-> FALSE, error |-> ErrFormat]

\* C8: the size check is inclusive at the limit: an input of exactly 50 MiB
\* that passes the other checks is valid, and an input one byte longer is
\* rejected with the size-limit message.
C8_SizeBoundary ==
    \A r \in Reqs :
        ValidateReturned(r) =>
            /\ (/\ Length(buffer[r]) = FiftyMiB
                /\ ~BadMagic(buffer[r])
                /\ ~BadExtension(filename[r]))
               => validation[r] = [valid |-> TRUE]
            /\ Length(buffer[r]) = FiftyMiB + 1
               => validation[r] = [valid |-> FALSE, error |-> ErrTooLarge]

\* a PDF of exactly 50 MiB that validate accepted
C8_Witness ==
    \E r \in Reqs :
        /\ ValidateReturned(r)
        /\ Length(buffer[r]) = FiftyMiB
        /\ validation[r] = [valid |-> TRUE]

\* a PDF of 50 MiB and one byte that validate rejected for its size
C8_WitnessOver ==
    \E r \in Reqs :
        /\ ValidateReturned(r)
        /\ Length(buffer[r]) = FiftyMiB + 1
        /\ ~BadMagic(buffer[r]) /\ ~BadExtension(filename[r])
        /\ validation[r] = [valid |-> FALSE, error |-> ErrTooLarge]

\* the marker occurs somewhere in the case-folded content of the buffer
Occurs(marker, buf) ==
    LET text == toLowerCase(buf.bytes \o (IF buf.pad > 0
                                          THEN [i \in 1..Len(marker) |-> Filler]
                                          ELSE <<>>))
    IN  \E i \in 1..Len(text) :
           /\ i + Len(marker) - 1 <= Len(text)
           /\ SubSeq(text, i, i + Len(marker) - 1) = marker

\* the threat kinds with the markers of each, in the order of the report
ThreatTable ==
    << [kind |-> "JavaScript detected",
        markers |-> { <<"/","j","a","v","a","s","c","r","i","p","t">>,
                      <<"/","j","s">> }],
       [kind |-> "Auto-action detected",
        markers |-> { <<"/","a","a">>,
                      <<"/","o","p","e","n","a","c","t","i","o","n">> }],
       [kind |-> "Launch action detected",
        markers |-> { <<"/","l","a","u","n","c","h">> }],
       [kind |-> "Form submission detected",
        markers |-> { <<"/","s","u","b","m","i","t","f","o","r","m">> }] >>

KindPresent(entry, buf) == \E m \in entry.markers : Occurs(m, buf)

RECURSIVE ExpectedThreatsFrom(_, _)
ExpectedThreatsFrom(k, buf) ==
    IF k > Len(ThreatTable) THEN <<>>
    ELSE (IF KindPresent(ThreatTable[k], buf)
          THEN <<ThreatTable[k].kind>> ELSE <<>>)
         \o ExpectedThreatsFrom(k + 1, buf)

ScanReturned(r) == "securityScan" \in { calls[r][i] : i \in 1..Len(calls[r]) }

\* C9: securityScan collects every threat kind whose marker occurs in the
\* case-folded text, each once, in the order JavaScript, Auto-action, Launch,
\* Form submission; safe holds exactly when no marker occurs, and then the
\* result has no threats list.
C9_AllThreatsCollected ==
    \A r \in Reqs :
        ScanReturned(r) =>
            LET expected == ExpectedThreatsFrom(1, buffer[r])
            IN  /\ securityCheck[r].safe = (expected = <<>>)
                /\ expected # <<>> => /\ Has(securityCheck[r], "threats")
                                      /\ securityCheck[r].threats = expected
                /\ expected = <<>> => ~Has(securityCheck[r], "threats")

\* a scan of a document where the launch marker stands before the script
\* marker: both kinds are reported, in the order of the table
C9_Witness ==
    \E r \in Reqs :
        /\ ScanReturned(r)
        /\ buffer[r].bytes = PDF_MAGIC_NUMBER \o <<"/","L","a","u","n","c","h">>
                                              \o <<"/","J","S">>
        /\ securityCheck[r] = [safe |-> FALSE,
                               threats |-> <<"JavaScript detected",
                                             "Launch action detected">>]


(***************************************************************************)
(* Properties of the handler                                               *)
(***************************************************************************)
Done(r) == pc[r] = "done"

Invoked(r, stage) == stage \in { calls[r][i] : i \in 1..Len(calls[r]) }

\* the outcome class a response stands for, read off the response itself
OutcomeOf(response) ==
    CASE response.code = 500 -> "INTERNAL_ERROR"
      [] Has(response.body, "receipt") -> "VERIFIED"
      [] ~Has(response.body, "reason") -> "NO_FILE"
      [] response.body.reason = "File validation failed" -> "VALIDATION_FAILED"
      [] response.body.reason = "Security check failed" -> "SECURITY_FAILED"
      [] response.body.reason = "No document ID found in metadata"
            -> "NOT_A_CREDENTIAL"
      [] response.body.reason = "Document ID not recognized"
            -> "DOCUMENT_NOT_FOUND"
      [] response.body.reason = "Verification service unavailable"
            -> "AUTHORITY_UNAVAILABLE"
      [] OTHER -> "OTHER"

\* the bytes of the submission reached the validator
Submitted(r) == Done(r) /\ buffer[r] # <<>>

\* the authority answered the outbound call with an HTTP status
Answered(r) == verifyResponse[r] # <<>> /\ verifyResponse[r].kind = "http"

SuccessStatus(st) == st \in 200..299

\* the transition rule of the outcome state machine as the claim words it,
\* over the results the stages returned for this submission
RuleOutcome(r) ==
    IF validation[r] = <<>> THEN "NO_STAGE_RAN"
    ELSE IF ~validation[r].valid THEN "VALIDATION_FAILED"
    ELSE IF securityCheck[r] = <<>> THEN "SCAN_SKIPPED"
    ELSE IF ~securityCheck[r].safe THEN "SECURITY_FAILED"
    ELSE IF ~Invoked(r, "extractMetadata") THEN "EXTRACTION_SKIPPED"
    ELSE IF ~Has(metadata[r], "documentId") THEN "NOT_A_CREDENTIAL"
    ELSE IF verifyResponse[r] = <<>> THEN "CALL_SKIPPED"
    ELSE IF verifyResponse[r].status = 404 THEN "DOCUMENT_NOT_FOUND"
    ELSE IF ~SuccessStatus(verifyResponse[r].status)
    THEN "AUTHORITY_UNAVAILABLE"
    ELSE "VERIFIED"

\* the rule with the success status split by what the body holds
RuleOutcomeWithBody(r) ==
    IF RuleOutcome(r) = "VERIFIED" /\ verifyResponse[r].body.json # "object"
    THEN "INTERNAL_ERROR"
    ELSE RuleOutcome(r)

\* the cases in which the handler follows the rule: the upload layer handed
\* over the bytes and, where the authority was called, it answered with an
\* HTTP status
RuleApplies(r) ==
    /\ Submitted(r)
    /\ Invoked(r, "fetch") => Answered(r)

\* In those cases the outcome is the one the transition rule gives, a success
\* status ending in VERIFIED when the body is a JSON object and in
\* INTERNAL_ERROR when it is not.
TransitionRuleWhenAnswered ==
    \A r \in Reqs : RuleApplies(r) => OutcomeOf(reply[r]) = RuleOutcomeWithBody(r)

\* the outcome the transition rule gives a submission, from what was
\* uploaded and what the outbound call came to: a call that fails or gets
\* no answer counts as AUTHORITY_UNAVAILABLE, as a non-success status other
\* than 404 does
ExpectedOutcome(r) ==
    LET doc == upload[r].doc
    IN  IF ~validate(doc, upload[r].filename).valid THEN "VALIDATION_FAILED"
        ELSE IF ~securityScan(doc).safe THEN "SECURITY_FAILED"
        ELSE IF ~Has(extractMetadata(doc).value, "documentId")
        THEN "NOT_A_CREDENTIAL"
        ELSE IF verifyResponse[r] = <<>> THEN "NO_CALL_ISSUED"
        ELSE IF verifyResponse[r].kind # "http" THEN "AUTHORITY_UNAVAILABLE"
        ELSE IF verifyResponse[r].status = 404 THEN "DOCUMENT_NOT_FOUND"
        ELSE IF ~SuccessStatus(verifyResponse[r].status)
        THEN "AUTHORITY_UNAVAILABLE"
        ELSE "VERIFIED"

\* C1 as stated: for every submission the outcome is exactly the one the
\* transition rule gives: validate fails -> VALIDATION_FAILED; else scan
\* unsafe -> SECURITY_FAILED; else no documentId -> NOT_A_CREDENTIAL; else
\* by the result of the outbound call, DOCUMENT_NOT_FOUND,
\* AUTHORITY_UNAVAILABLE or VERIFIED; no other combination is reachable.
C1_OutcomeByTransitionRule ==
    \A r \in Reqs :
        (Done(r) /\ upload[r] # <<>>) => OutcomeOf(reply[r]) = ExpectedOutcome(r)

\* C2: no stage runs downstream of a terminal failure: the stages are invoked
\* in the order validate, securityScan, extractMetadata, fetch, each at most
\* once; securityScan only after validate answered valid, extractMetadata
\* only after securityScan also answered safe, and the outbound call only
\* after extractMetadata also produced a documentId.
C2_NoStageAfterFailure ==
    \A r \in Reqs :
        /\ \E n \in 0..4 :
              calls[r] = SubSeq(<<"validate", "securityScan",
                                  "extractMetadata", "fetch">>, 1, n)
        /\ Invoked(r, "securityScan") =>
              validation[r] # <<>> /\ validation[r].valid
        /\ Invoked(r, "extractMetadata") =>
              /\ validation[r] # <<>> /\ validation[r].valid
              /\ securityCheck[r] # <<>> /\ securityCheck[r].safe
        /\ Invoked(r, "fetch") =>
              /\ validation[r] # <<>> /\ validation[r].valid
              /\ securityCheck[r] # <<>> /\ securityCheck[r].safe
              /\ Has(metadata[r], "documentId")
              /\ verifyResponse[r].documentId = metadata[r].documentId
        /\ (Done(r) /\ OutcomeOf(reply[r]) = "VALIDATION_FAILED") =>
              calls[r] = <<"validate">>
        /\ (Done(r) /\ OutcomeOf(reply[r]) = "SECURITY_FAILED") =>
              calls[r] = <<"validate", "securityScan">>
        /\ (Done(r) /\ OutcomeOf(reply[r]) = "NOT_A_CREDENTIAL") =>
              calls[r] = <<"validate", "securityScan", "extractMetadata">>

\* a submission stopped by the security scan: nothing ran after it
C2_Witness ==
    \E r \in Reqs :
        /\ Done(r)
        /\ calls[r] = <<"validate", "securityScan">>
        /\ ~securityCheck[r].safe
        /\ metadata[r] = <<>>

\* C3 as stated: a transport-level failure of the outbound call ends in
\* AUTHORITY_UNAVAILABLE, HTTP 200 with status UNKNOWN, not in HTTP 500.
C3_TransportFailureIsUnavailable ==
    \A r \in Reqs :
        (Done(r) /\ verifyResponse[r] # <<>> /\ verifyResponse[r].kind = "error")
        => /\ reply[r].code = 200
           /\ reply[r].body.status = "UNKNOWN"
           /\ OutcomeOf(reply[r]) = "AUTHORITY_UNAVAILABLE"


\* the handler's catch block had a fault to handle: the upload layer threw,
\* the outbound call rejected (at once, or after the authority stayed
\* silent), or the success body was not a JSON object
Faulted(r) ==
    \/ upload[r] # <<>> /\ buffer[r] = <<>>
    \/ verifyResponse[r] # <<>> /\ verifyResponse[r].kind # "http"
    \/ /\ Answered(r)
       /\ SuccessStatus(verifyResponse[r].status)
       /\ verifyResponse[r].body.json # "object"

\* C4: the HTTP status and the status tag follow the error taxonomy:
\* a failed validation and a failed scan give 400 with INVALID (the scan
\* with the kinds it matched); no documentId, authority 404 and any other
\* non-success status give 200 with UNKNOWN and valid false, each with its
\* own reason; a fault gives 500 with ERROR.
C4_ErrorTaxonomy ==
    \A r \in Reqs :
        Done(r) =>
            /\ (validation[r] # <<>> /\ ~validation[r].valid) =>
                  /\ reply[r].code = 400
                  /\ reply[r].body.status = "INVALID"
            /\ (securityCheck[r] # <<>> /\ ~securityCheck[r].safe) =>
                  /\ reply[r].code = 400
                  /\ reply[r].body.status = "INVALID"
                  /\ Has(reply[r].body, "threats")
                  /\ reply[r].body.threats = securityCheck[r].threats
                  /\ Len(reply[r].body.threats) > 0
            /\ (Invoked(r, "extractMetadata") /\ ~Has(metadata[r], "documentId")) =>
                  /\ reply[r].code = 200
                  /\ reply[r].body.status = "UNKNOWN"
                  /\ reply[r].body.valid = FALSE
                  /\ reply[r].body.reason = "No document ID found in metadata"
            /\ (Answered(r) /\ verifyResponse[r].status = 404) =>
                  /\ reply[r].code = 200
                  /\ reply[r].body.status = "UNKNOWN"
                  /\ reply[r].body.valid = FALSE
                  /\ reply[r].body.reason = "Document ID not recognized"
            /\ (/\ Answered(r)
                /\ verifyResponse[r].status # 404
                /\ ~SuccessStatus(verifyResponse[r].status)) =>
                  /\ reply[r].code = 200
                  /\ reply[r].body.status = "UNKNOWN"
                  /\ reply[r].body.valid = FALSE
                  /\ reply[r].body.reason = "Verification service unavailable"
            /\ Faulted(r) =>
                  /\ reply[r].code = 500
                  /\ reply[r].body.status = "ERROR"

\* a document the authority answered 404 for: 200 with UNKNOWN
C4_Witness ==
    \E r \in Reqs :
        /\ Done(r)
        /\ Answered(r) /\ verifyResponse[r].status = 404
        /\ reply[r].code = 200
        /\ reply[r].body.status = "UNKNOWN"

\* a document with two threat kinds: 400 with INVALID and both kinds
C4_WitnessThreats ==
    \E r \in Reqs :
        /\ Done(r)
        /\ reply[r].code = 400
        /\ Has(reply[r].body, "threats")
        /\ Len(reply[r].body.threats) = 2

\* C5 as stated: a file larger than 50 MiB is answered with HTTP 400 and the
\* size-limit message, not with HTTP 500.
C5_OversizeIsClientError ==
    \A r \in Reqs :
        (Done(r) /\ upload[r] # <<>> /\ Length(upload[r].doc) > FiftyMiB)
        => /\ reply[r].code = 400
           /\ reply[r].body.message = "File too large. Maximum size is 50MB"

\* the object the authority answered with, on the VERIFIED path
Verified(r) == Done(r) /\ OutcomeOf(reply[r]) = "VERIFIED"

AuthorityResult(r) == verifyResponse[r].body.value

IsActiveAndValid(res) ==
    Has(res, "status") /\ res.status = "ACTIVE" /\ Has(res, "valid") /\ res.valid
IsStatus(res, st) == Has(res, "status") /\ res.status = st
IsNotValid(res) == ~Has(res, "valid") \/ ~res.valid
HasErrors(res) == Has(res, "errors") /\ res.errors # <<>>

\* the precedence as the claim words it: the generic message in every
\* remaining case
ClaimedMessage(res) ==
    CASE IsActiveAndValid(res) -> MsgValid
      [] ~IsActiveAndValid(res) /\ IsStatus(res, "REVOKED") -> MsgRevoked
      [] ~IsActiveAndValid(res) /\ IsStatus(res, "SUPERSEDED") -> MsgSuperseded
      [] /\ ~IsActiveAndValid(res)
         /\ ~IsStatus(res, "REVOKED") /\ ~IsStatus(res, "SUPERSEDED")
         /\ IsNotValid(res) /\ HasErrors(res)
            -> "Invalid Document - " \o Head(res.errors)
      [] OTHER -> MsgUnknown

\* the precedence with the case the claim leaves out: not valid without
\* errors gives the tampered-or-not-authentic message
AmendedMessage(res) ==
    IF /\ ~IsActiveAndValid(res)
       /\ ~IsStatus(res, "REVOKED") /\ ~IsStatus(res, "SUPERSEDED")
       /\ IsNotValid(res) /\ ~HasErrors(res)
    THEN MsgTampered
    ELSE ClaimedMessage(res)

\* C6 as stated: on the VERIFIED path the message follows the precedence
\* active and valid, revoked, superseded, invalid with errors, and is the
\* generic message in every remaining case.
C6_Original ==
    \A r \in Reqs :
        Verified(r) => reply[r].body.message = ClaimedMessage(AuthorityResult(r))

\* C6 amended: on the VERIFIED path the message follows the precedence
\* active and valid, revoked, superseded, not valid with errors (carrying the
\* first error), not valid without errors (the tampered-or-not-authentic
\* message), and is the generic message only when valid is true and the
\* status is none of ACTIVE, REVOKED, SUPERSEDED.
C6_MessagePrecedence ==
    \A r \in Reqs :
        Verified(r) => reply[r].body.message = AmendedMessage(AuthorityResult(r))

\* a revoked document that is also not valid with errors: revoked wins
C6_Witness ==
    \E r \in Reqs :
        /\ Verified(r)
        /\ IsStatus(AuthorityResult(r), "REVOKED")
        /\ IsNotValid(AuthorityResult(r)) /\ HasErrors(AuthorityResult(r))
        /\ reply[r].body.message = MsgRevoked

\* a document that is not valid, with errors: the first error is carried
C6_WitnessErrors ==
    \E r \in Reqs :
        /\ Verified(r)
        /\ reply[r].body.message = "Invalid Document - Signature mismatch"

\* pdfjs cannot load the document, or finds no info dictionary in it
ParseFails(buf) == buf.pdf.load # "ok" \/ ~Has(buf.pdf, "info")

\* C10: extractMetadata never raises to the handler: when the document
\* cannot be parsed or has no info dictionary it returns no identifier, and
\* the submission ends in NOT_A_CREDENTIAL (HTTP 200, UNKNOWN), never in
\* INTERNAL_ERROR.
C10_ExtractNeverRaises ==
    \A r \in Reqs :
        (Invoked(r, "extractMetadata") /\ ParseFails(buffer[r])) =>
            /\ metadata[r] = <<>>
            /\ Done(r)
            /\ reply[r].code = 200
            /\ reply[r].body.status = "UNKNOWN"
            /\ OutcomeOf(reply[r]) = "NOT_A_CREDENTIAL"

\* a validated, safe document without an info dictionary, answered
\* NOT_A_CREDENTIAL
C10_Witness ==
    \E r \in Reqs :
        /\ Done(r)
        /\ validation[r] = [valid |-> TRUE]
        /\ securityCheck[r] = [safe |-> TRUE]
        /\ buffer[r].pdf = [load |-> "ok"]
        /\ OutcomeOf(reply[r]) = "NOT_A_CREDENTIAL"


\* C11: every fault raised while a submission is processed ends in
\* INTERNAL_ERROR, and the response is the same fixed value whatever the
\* fault: HTTP 500 with a generic message, nothing of the fault, of the stage
\* that raised it or of the authority's response in it.
C11_FaultsDiscloseNothing ==
    \A r \in Reqs :
        (Done(r) /\ Faulted(r)) =>
            reply[r] =
                [code |-> 500,
                 body |-> [status |-> "ERROR", valid |-> FALSE,
                           message |-> "An error occurred during verification. Please try again.",
                           reason |-> "Internal processing error"]]

\* a fault after the authority's answer arrived: the success body was not
\* JSON, and the response is HTTP 500
C11_Witness ==
    \E r \in Reqs :
        /\ Done(r)
        /\ Answered(r)
        /\ verifyResponse[r].status = 200
        /\ verifyResponse[r].body.json = "invalid"
        /\ reply[r].code = 500

\* C12 as stated: every response, on every path, holds a human-readable
\* message and a machine status tag, whatever the authority's response
\* carries or omits.
C12_MessageAndStatusAlways ==
    \A r \in Reqs :
        Done(r) => Has(reply[r].body, "message") /\ Has(reply[r].body, "status")

\* the handler reached Step 5: the authority answered with a success status
\* and a JSON object
OnVerifiedPath(r) ==
    /\ Answered(r)
    /\ SuccessStatus(verifyResponse[r].status)
    /\ verifyResponse[r].body.json = "object"

\* C13: a receipt is built only on the VERIFIED path: every VERIFIED
\* response carries one, and no response of another outcome does.
C13_ReceiptOnlyWhenVerified ==
    \A r \in Reqs :
        Done(r) => (Has(reply[r].body, "receipt") <=> OnVerifiedPath(r))

\* a VERIFIED response, with its receipt
C13_Witness ==
    \E r \in Reqs :
        /\ Done(r)
        /\ OnVerifiedPath(r)
        /\ Has(reply[r].body, "receipt")
        /\ reply[r].body.receipt.documentId = "doc-1"


\* how often the outbound call was issued for a submission
FetchCount(r) == Cardinality({ i \in 1..Len(calls[r]) : calls[r][i] = "fetch" })

\* validation, scan and extraction all passed, with a documentId
AllStagesPassed(r) ==
    /\ validation[r] # <<>> /\ validation[r].valid
    /\ securityCheck[r] # <<>> /\ securityCheck[r].safe
    /\ Has(metadata[r], "documentId")

\* C15: a submission issues at most one outbound call: exactly one when
\* validation, scan and extraction passed with a documentId, none otherwise;
\* a call that fails or is answered with a non-success status is classified
\* and not repeated.
C15_SingleOutboundCall ==
    \A r \in Reqs :
        /\ FetchCount(r) <= 1
        /\ Done(r) => (FetchCount(r) = 1 <=> AllStagesPassed(r))
        /\ (verifyResponse[r] # <<>>
            /\ \/ verifyResponse[r].kind = "error"
               \/ Answered(r) /\ ~SuccessStatus(verifyResponse[r].status))
           => Done(r) /\ FetchCount(r) = 1
        /\ (verifyResponse[r] # <<>> /\ verifyResponse[r].kind = "silent")
           => FetchCount(r) = 1

\* a call answered 503: classified, one call issued
C15_Witness ==
    \E r \in Reqs :
        /\ Done(r)
        /\ Answered(r) /\ verifyResponse[r].status = 503
        /\ FetchCount(r) = 1
        /\ reply[r].body.reason = "Verification service unavailable"

\* C18: fail-closed: a response says valid true only on the VERIFIED path,
\* after validate passed, the scan was safe, a documentId was extracted, the
\* authority answered with a success status and its own valid field was
\* true; every other response says valid false or has no valid field.
C18_FailClosed ==
    \A r \in Reqs :
        Done(r) =>
            /\ (Has(reply[r].body, "valid") /\ reply[r].body.valid) =>
                  /\ AllStagesPassed(r)
                  /\ OnVerifiedPath(r)
                  /\ Has(AuthorityResult(r), "valid")
                  /\ AuthorityResult(r).valid = TRUE
            /\ ~OnVerifiedPath(r) =>
                  (~Has(reply[r].body, "valid") \/ reply[r].body.valid = FALSE)

\* a VERIFIED response with valid true for a status other than ACTIVE
C18_Witness ==
    \E r \in Reqs :
        /\ Done(r)
        /\ OnVerifiedPath(r)
        /\ IsStatus(AuthorityResult(r), "EXPIRED")
        /\ Has(AuthorityResult(r), "valid") /\ AuthorityResult(r).valid
        /\ reply[r].body.valid = TRUE

\* a VERIFIED response for an ACTIVE document the authority calls not valid
C18_WitnessNotValid ==
    \E r \in Reqs :
        /\ Done(r)
        /\ OnVerifiedPath(r)
        /\ IsStatus(AuthorityResult(r), "ACTIVE")
        /\ Has(AuthorityResult(r), "valid") /\ ~AuthorityResult(r).valid
        /\ reply[r].body.valid = FALSE

\* the value of a check of the authority, false when checks or the check is
\* left out
AuthorityCheck(res, name) ==
    IF ~Has(res, "checks") THEN FALSE
    ELSE IF ~Has(res.checks, name) THEN FALSE
    ELSE res.checks[name]

\* C19: in every VERIFIED response the receipt agrees with the top level:
\* receipt.result is VALID iff the authority's valid is truthy and INVALID
\* otherwise, receipt.documentId is documentId, and receipt.checks
\* signature/authority/revocation equal verification
\* cryptographicIntegrity/issuingAuthority/revocationStatus, each the
\* authority's check, or false when the authority leaves it out.
C19_ReceiptAgrees ==
    \A r \in Reqs :
        (Done(r) /\ OnVerifiedPath(r)) =>
            LET body == reply[r].body
                res == AuthorityResult(r)
            IN  /\ body.receipt.result =
                      (IF Has(res, "valid") /\ res.valid = TRUE
                       THEN "VALID" ELSE "INVALID")
                /\ body.receipt.documentId = body.documentId
                /\ body.documentId = metadata[r].documentId
                /\ body.receipt.checks.signature = body.verification.cryptographicIntegrity
                /\ body.receipt.checks.authority = body.verification.issuingAuthority
                /\ body.receipt.checks.revocation = body.verification.revocationStatus
                /\ body.receipt.checks.signature = AuthorityCheck(res, "signatureValid")
                /\ body.receipt.checks.authority = AuthorityCheck(res, "authorityValid")
                /\ body.receipt.checks.revocation = AuthorityCheck(res, "notRevoked")

\* a VERIFIED response for an answer without checks: the receipt says VALID
\* and every check is false
C19_Witness ==
    \E r \in Reqs :
        /\ Done(r)
        /\ OnVerifiedPath(r)
        /\ ~Has(AuthorityResult(r), "checks")
        /\ reply[r].body.receipt.result = "VALID"
        /\ reply[r].body.receipt.checks =
              [signature |-> FALSE, authority |-> FALSE, revocation |-> FALSE]


\* the authority never answered the outbound call of submission r
Silent(r) == verifyResponse[r] # <<>> /\ verifyResponse[r].kind = "silent"

\* C16 as stated: every submission reaches a terminal outcome, also when the
\* authority never answers the outbound call: a handler waiting for the
\* answer is released by the expiry of the call, and the outcome then is
\* AUTHORITY_UNAVAILABLE.
C16_TerminatesAlsoWithoutAnswer ==
    \A r \in Reqs :
        /\ pc[r] = "awaitFetch" => ENABLED FetchExpires(r)
        /\ (Done(r) /\ Silent(r)) =>
              /\ reply[r].code = 200
              /\ OutcomeOf(reply[r]) = "AUTHORITY_UNAVAILABLE"


\* a response without the fields that are stamped per call
Strip(response) ==
    IF Has(response.body, "receipt")
    THEN [response EXCEPT !.body.verifiedAt = "",
                          !.body.receipt.verifiedAt = "",
                          !.body.receipt.id = ""]
    ELSE response

\* C14: two submissions of the same document for which the authority
\* returned identical data have outcomes equal in every field except
\* verifiedAt (top level and receipt) and receipt.id.
C14_Idempotent ==
    \A r \in Reqs : \A q \in Reqs :
        (/\ Done(r) /\ Done(q)
         /\ upload[r] = upload[q]
         /\ verifyResponse[r] = verifyResponse[q])
        => Strip(reply[r]) = Strip(reply[q])

\* the same document verified twice: the responses differ, but only in the
\* stamped fields
C14_Witness ==
    /\ Done(1) /\ Done(2)
    /\ upload[1] = upload[2]
    /\ verifyResponse[1] = verifyResponse[2]
    /\ OnVerifiedPath(1)
    /\ reply[1].body.receipt.id # reply[2].body.receipt.id
    /\ reply[1].body.verifiedAt # reply[2].body.verifiedAt
    /\ reply[1].body.valid = TRUE /\ reply[2].body.valid = TRUE

\* the response a submission gets when it is the only one: the handler as a
\* function of the upload and of what the outbound call came to (no
\* response while the call has not been issued)
SoloReply(u, answer) ==
    IF u = <<>> THEN noFileReply
    ELSE IF Length(u.doc) > FILE_SIZE_LIMIT THEN internalErrorReply
    ELSE LET v == validate(u.doc, u.filename)
             s == securityScan(u.doc)
             m == extractMetadata(u.doc)
         IN  IF ~v.valid THEN validationFailedReply(v)
             ELSE IF ~s.safe THEN securityFailedReply(s)
             ELSE IF m.raised THEN internalErrorReply
             ELSE IF ~Has(m.value, "documentId") THEN notACredentialReply
             ELSE IF answer = <<>> THEN send(0, <<>>)
             ELSE IF answer.kind # "http" THEN internalErrorReply
             ELSE IF ~ok(answer)
             THEN IF answer.status = 404
                  THEN notFoundReply(m.value)
                  ELSE unavailableReply(m.value, answer)
             ELSE IF answer.body.json # "object" THEN internalErrorReply
             ELSE send(200, successBody(answer.body.value, m.value, "", "", ""))

\* everything the handler of submission r holds
StateOf(r) ==
    <<pc[r], upload[r], buffer[r], filename[r], validation[r],
      securityCheck[r], metadata[r], verifyResponse[r], reply[r], calls[r]>>

\* C17: concurrent submissions are independent: in every interleaving of the
\* steps of two submissions, a step of one leaves everything the other holds
\* as it was, and the outcome of each submission is the outcome it gets
\* alone for the same upload and the same authority answer.
C17_Independent ==
    [][\A r \in Reqs :
          /\ Done(r)' =>
                Strip(reply'[r]) = Strip(SoloReply(upload'[r], verifyResponse'[r]))
          /\ StateOf(r)' # StateOf(r) =>
                \A q \in Reqs \ {r} : StateOf(q)' = StateOf(q)]_vars

\* two different credentials in flight together: the second is answered
\* while the first waits for the body of the authority's answer
C17_Witness ==
    /\ pc[1] = "json"
    /\ metadata[1].documentId = "doc-1"
    /\ Done(2)
    /\ OutcomeOf(reply[2]) = "DOCUMENT_NOT_FOUND"
    /\ reply[2].body.details.documentId = "doc-2"

\* both answered, with different outcomes
C17_WitnessBothDone ==
    /\ Done(1) /\ Done(2)
    /\ OutcomeOf(reply[1]) = "VERIFIED"
    /\ reply[1].body.documentId = "doc-1"
    /\ OutcomeOf(reply[2]) = "AUTHORITY_UNAVAILABLE"
    /\ reply[2].body.details.documentId = "doc-2"

=============================================================================
